---- MODULE Spec2Model ----
(***************************************************************************)
(* Model of CryptoDataFetcher (app/python/web_scraper/web_scraper.py):     *)
(* the retrying HTTP fetch with exponential backoff, the price fetch that  *)
(* parses and validates the JSON body, and the payload validator.          *)
(*                                                                         *)
(* One fetcher instance is constructed (Init) and then used for a bounded  *)
(* number of sequential calls.  A call of fetch_with_retry is a sequence   *)
(* of steps, one per session.get and one per time.sleep, so that the       *)
(* states in the middle of the retry loop are visible.  The transport and  *)
(* the clock are collaborators: what they were asked to do is recorded in  *)
(* `log`, what was printed in `stdout`.                                    *)
(***************************************************************************)
EXTENDS Integers, Sequences, FiniteSets, TLC

VARIABLES
    timeout,      \* self.timeout
    max_retries,  \* self.max_retries
    headers,      \* self.session.headers (the names set at construction)
    ncalls,       \* how many public calls were started on this instance
    op,           \* the public method running ("none" between calls)
    pc,           \* position inside the running call
    attempt,      \* the loop variable of fetch_with_retry
    crypto_ids,   \* the argument crypto_ids / expected_ids of the call
    response,     \* what fetch_with_retry returned to its caller
    data,         \* the value response.json() produced (the validator's argument)
    result,       \* the return value of the public call
    raised,       \* the exception that escaped the public call ("none" if none)
    log,          \* session.get and time.sleep calls of this call, in order
    stdout,       \* lines printed by this call, in order
    params,       \* the params argument of the running fetch_with_retry
    first,        \* the outcome of the first of two validator calls on one input
    bs_pc,        \* binary_search.py: "ready" before a function is applied, then "done"
    bs_fn,        \* binary_search.py: the function that was applied
    bs_arr,       \* binary_search.py: the list argument
    bs_matrix,    \* binary_search.py: the matrix argument of search_2d_matrix
    bs_target,    \* binary_search.py: the target argument
    bs_result     \* binary_search.py: the value returned

\* the fetcher and its running call
fvars == <<timeout, max_retries, headers, ncalls, op, pc, attempt, crypto_ids,
           response, data, result, raised, log, stdout, params, first>>

\* the arguments and the result of a binary_search.py function
bsvars == <<bs_pc, bs_fn, bs_arr, bs_matrix, bs_target, bs_result>>

vars == <<fvars, bsvars>>

----------------------------------------------------------------------------
(* Bounds of the model *)

\* largest max_retries a fetcher is constructed with
MaxRetriesBound == 3

\* longest crypto_ids / expected_ids list
MaxIds == 2

\* public calls made on one fetcher instance
MaxCalls == 3

----------------------------------------------------------------------------
(* Construction-time configuration *)

DefaultTimeout == 10

FixedHeaders == {"User-Agent", "Accept"}

----------------------------------------------------------------------------
(* JSON values.  A top-level value is a dict over ids or something else;   *)
(* an entry of the dict is a dict over field names, a list, a string, a    *)
(* number or null.  For a string entry `elems` is the set of field names   *)
(* that occur in it as substrings, for a list the set of its elements.     *)

IdUniverse == {"bitcoin", "ethereum"}

required_fields == <<"usd", "usd_24h_change", "usd_market_cap">>

RequiredSet == {required_fields[i] : i \in 1..Len(required_fields)}

Fields == RequiredSet \cup {"last_updated_at"}

Absent == [kind |-> "absent", elems |-> {}]

DictEntries == {[kind |-> "dict", elems |-> S] : S \in SUBSET Fields}

NonDictEntries ==
    {[kind |-> "list", elems |-> RequiredSet],
     [kind |-> "list", elems |-> {}],
     [kind |-> "str", elems |-> RequiredSet],
     [kind |-> "str", elems |-> {}],
     [kind |-> "num", elems |-> {}],
     [kind |-> "null", elems |-> {}]}

Entries == DictEntries \cup NonDictEntries

NoItems == [i \in IdUniverse |-> Absent]

\* the placeholder for "no JSON value" (data before response.json() ran)
NoData == [kind |-> "undef", items |-> NoItems]

JsonDicts == {[kind |-> "dict", items |-> f] : f \in [IdUniverse -> Entries \cup {Absent}]}

JsonNonDicts == {[kind |-> k, items |-> NoItems] : k \in {"list", "null"}}

JsonValues == JsonDicts \cup JsonNonDicts

\* the entries a response body of the price endpoint is drawn from
WireEntries ==
    {Absent,
     [kind |-> "dict", elems |-> {}],
     [kind |-> "dict", elems |-> {"usd"}],
     [kind |-> "dict", elems |-> {"usd", "usd_24h_change"}],
     [kind |-> "dict", elems |-> RequiredSet],
     [kind |-> "dict", elems |-> Fields],
     [kind |-> "null", elems |-> {}],
     [kind |-> "str", elems |-> RequiredSet]}

WireValues ==
    {[kind |-> "dict", items |-> f] : f \in [IdUniverse -> WireEntries]} \cup JsonNonDicts

\* a response body: text that is well-formed JSON for `value`, or is not JSON
MalformedBody == [wellformed |-> FALSE, value |-> NoData]

Bodies == {MalformedBody} \cup {[wellformed |-> TRUE, value |-> v] : v \in WireValues}

(* JSON values of the coin endpoint that fetch_additional_market_data reads: *)
(* an object whose keys 'name', 'symbol' and 'description' are absent or     *)
(* hold a value; 'description' holds an object whose key 'en' is absent,     *)
(* null or a text of some length, or holds null or a text itself.            *)

AbsentKey == [kind |-> "absent", text |-> ""]

CoinNames == {AbsentKey, [kind |-> "str", text |-> "Bitcoin"]}

CoinSymbols == {AbsentKey, [kind |-> "str", text |-> "btc"], [kind |-> "null", text |-> ""]}

NoEn == [kind |-> "absent", len |-> 0]

EnValues ==
    {NoEn, [kind |-> "null", len |-> 0]}
    \cup {[kind |-> "str", len |-> n] : n \in {0, 5, 150}}

CoinDescriptions ==
    {[kind |-> k, en |-> NoEn] : k \in {"absent", "null", "str"}}
    \cup {[kind |-> "dict", en |-> e] : e \in EnValues}

NoCoin == [name |-> AbsentKey, symbol |-> AbsentKey, description |-> [kind |-> "absent", en |-> NoEn]]

CoinValues ==
    {[kind |-> "dict", coin |-> [name |-> n, symbol |-> y, description |-> d]] :
        n \in CoinNames, y \in CoinSymbols, d \in CoinDescriptions}
    \cup {[kind |-> k, coin |-> NoCoin] : k \in {"list", "null"}}

CoinBodies == {MalformedBody} \cup {[wellformed |-> TRUE, value |-> v] : v \in CoinValues}

IdSeqs == UNION {[1..n -> IdUniverse] : n \in 0..MaxIds}

----------------------------------------------------------------------------
(* The transport *)

\* what one session.get does: it raises, or returns a response with a status
\* and a body.  A 200 carries any of the bodies; a 304 and a 503 carry an empty
\* body, which is not JSON
GetOutcomes ==
    {[exc |-> "Timeout", status |-> 0, body |-> MalformedBody],
     [exc |-> "ConnectionError", status |-> 0, body |-> MalformedBody],
     [exc |-> "none", status |-> 304, body |-> MalformedBody],
     [exc |-> "none", status |-> 503, body |-> MalformedBody]}
    \cup {[exc |-> "none", status |-> 200, body |-> b] : b \in Bodies}

\* what one session.get of the coin endpoint does
CoinGetOutcomes ==
    {o \in GetOutcomes : o.status # 200}
    \cup {[exc |-> "none", status |-> 200, body |-> b] : b \in CoinBodies}

\* the outcomes of the session.get of a call of the public method `name`
OutcomesOf(name) ==
    IF name = "fetch_additional_market_data" THEN CoinGetOutcomes ELSE GetOutcomes

\* response.raise_for_status(): HTTPError for a 4xx or 5xx status
raise_for_status(status) ==
    IF status >= 400 /\ status < 600 THEN "HTTPError" ELSE "none"

\* variant: only the transport's own exceptions are caught, an error status is not
IsRequestException_no_http(exc) == exc \in {"Timeout", "ConnectionError"}

\* variant: a timeout is not caught
IsRequestException_no_timeout(exc) == exc \in {"ConnectionError", "HTTPError"}

\* the classes `except requests.exceptions.RequestException` catches
IsRequestException(exc) ==
    exc \in {"RequestException", "Timeout", "ConnectionError", "HTTPError"}

\* variant: the except clause names a class the decoder does not raise
IsJSONDecodeError_other(exc) == exc = "KeyError"

\* the classes `except json.JSONDecodeError` catches
IsJSONDecodeError(exc) == exc = "JSONDecodeError"

\* the classes `except (json.JSONDecodeError, KeyError)` catches
IsDecodeOrKeyError(exc) == exc \in {"JSONDecodeError", "KeyError"}

NoneResponse == [isNone |-> TRUE, attempt |-> 0, status |-> 0, body |-> MalformedBody]

\* `if response:` -- None is falsy, a Response is truthy when it is ok
Truthy(r) == ~r.isNone /\ raise_for_status(r.status) = "none"

\* response.json(): the value the body text decodes to, or JSONDecodeError
response_json(r) ==
    IF r.body.wellformed
        THEN [exc |-> "none", value |-> r.body.value]
        ELSE [exc |-> "JSONDecodeError", value |-> NoData]

----------------------------------------------------------------------------
(* Return values of the public methods *)

Pending == [kind |-> "pending", response |-> NoneResponse, data |-> NoData, bool |-> FALSE]

ReturnNone == [kind |-> "None", response |-> NoneResponse, data |-> NoData, bool |-> FALSE]

ReturnResponse(r) == [kind |-> "response", response |-> r, data |-> NoData, bool |-> FALSE]

ReturnData(d) == [kind |-> "data", response |-> NoneResponse, data |-> d, bool |-> FALSE]

\* the dict fetch_additional_market_data builds
ReturnMapping(m) == [kind |-> "mapping", response |-> NoneResponse, data |-> m, bool |-> FALSE]

ReturnBool(b) == [kind |-> "bool", response |-> NoneResponse, data |-> NoData, bool |-> b]

----------------------------------------------------------------------------
(* validate_price_data *)

\* `field not in crypto_data` is evaluated as `field in crypto_data`: a dict
\* tests its keys, a list its elements, a string its substrings; a number or
\* None is not a container and the test raises TypeError
Supports_in(crypto_data) == crypto_data.kind \in {"dict", "list", "str"}

field_in(field, crypto_data) == field \in crypto_data.elems

\* `crypto_id not in data`, for a dict data
id_in(crypto_id, d) == d.items[crypto_id].kind # "absent"

\* the inner loop: for field in required_fields
RECURSIVE FieldLoop(_, _)
FieldLoop(crypto_data, i) ==
    IF i > Len(required_fields)
        THEN [exc |-> "none", ok |-> TRUE]
    ELSE IF ~Supports_in(crypto_data)
        THEN [exc |-> "TypeError", ok |-> FALSE]
    ELSE IF ~field_in(required_fields[i], crypto_data)
        THEN [exc |-> "none", ok |-> FALSE]
    ELSE FieldLoop(crypto_data, i + 1)

\* variant: `return True` sits inside the loop, after the first id's fields
IdLoop_first_only(d, expected_ids, j) ==
    IF j > Len(expected_ids)
        THEN [exc |-> "none", ret |-> TRUE, out |-> <<>>]
    ELSE IF ~id_in(expected_ids[j], d)
        THEN [exc |-> "none", ret |-> FALSE, out |-> <<"Missing data">>]
    ELSE LET f == FieldLoop(d.items[expected_ids[j]], 1) IN
        IF f.exc # "none"
            THEN [exc |-> f.exc, ret |-> FALSE, out |-> <<>>]
        ELSE IF ~f.ok
            THEN [exc |-> "none", ret |-> FALSE, out |-> <<"Missing field">>]
        ELSE [exc |-> "none", ret |-> TRUE, out |-> <<>>]

\* the outer loop: for crypto_id in expected_ids
RECURSIVE IdLoop(_, _, _)
IdLoop(d, expected_ids, j) ==
    IF j > Len(expected_ids)
        THEN [exc |-> "none", ret |-> TRUE, out |-> <<>>]
    ELSE IF ~id_in(expected_ids[j], d)
        THEN [exc |-> "none", ret |-> FALSE, out |-> <<"Missing data">>]
    ELSE LET f == FieldLoop(d.items[expected_ids[j]], 1) IN
        IF f.exc # "none"
            THEN [exc |-> f.exc, ret |-> FALSE, out |-> <<>>]
        ELSE IF ~f.ok
            THEN [exc |-> "none", ret |-> FALSE, out |-> <<"Missing field">>]
        ELSE IdLoop(d, expected_ids, j + 1)

\* variant: the isinstance test is missing
isinstance_dict_missing(d) == TRUE

\* `isinstance(data, dict)`
isinstance_dict(d) == d.kind = "dict"

\* variant: the validator keeps state on the instance and rejects whatever it
\* is shown once the instance has been used
validate_price_data_stateful(d, expected_ids) ==
    IF ncalls > 0 \/ ~isinstance_dict(d)
        THEN [exc |-> "none", ret |-> FALSE, out |-> <<>>]
        ELSE IdLoop(d, expected_ids, 1)

\* validate_price_data(data, expected_ids): the exception it raises or the
\* boolean it returns, and the lines it prints
validate_price_data(d, expected_ids) ==
    IF ~isinstance_dict(d)
        THEN [exc |-> "none", ret |-> FALSE, out |-> <<>>]
        ELSE IdLoop(d, expected_ids, 1)

----------------------------------------------------------------------------
(* fetch_with_retry *)

RECURSIVE Pow2(_)
Pow2(n) == IF n <= 0 THEN 1 ELSE 2 * Pow2(n - 1)

\* variant: a fixed wait of one second
wait_time_constant(k) == 1

\* variant: 2 ** (attempt + 1)
wait_time_doubled(k) == 2 * Pow2(k)

\* wait_time = 2 ** attempt
wait_time(k) == Pow2(k)

\* variant: range(self.max_retries + 1)
InRange_inclusive(k, n) == k >= 0 /\ k <= n

\* variant: range(self.max_retries - 1)
InRange_short(k, n) == k >= 0 /\ k < n - 1

\* variant: the body runs once before the bound is looked at
InRange_at_least_once(k, n) == k >= 0 /\ (k < n \/ k = 0)

\* `for attempt in range(self.max_retries)`: the loop body runs for attempt k
InRange(k, n) == k >= 0 /\ k < n

\* variant: `if attempt < self.max_retries`, a sleep after the last attempt too
RetryFollows_always(k, n) == k < n

\* `if attempt < self.max_retries - 1`: sleep, another attempt follows
RetryFollows(k, n) == k < n - 1

\* params=None
NoParams == [isNone |-> TRUE, ids |-> <<>>]

\* variant: only the first id goes into the request
RequestParams_first_only(ids) ==
    [isNone |-> FALSE, ids |-> IF ids = <<>> THEN <<>> ELSE <<ids[1]>>]

\* the params dict of fetch_crypto_prices: 'ids' is ','.join(crypto_ids), kept
\* here as the list of the ids joined; the other three entries are fixed
RequestParams(ids) == [isNone |-> FALSE, ids |-> ids]

\* variant: the get is made without `timeout=self.timeout`
GetEvent_no_timeout(k, o) ==
    [ev |-> "get", attempt |-> k, exc |-> o.exc, status |-> o.status, secs |-> 0,
     timeout |-> 0, headers |-> headers, params |-> params]

GetEvent(k, o) ==
    [ev |-> "get", attempt |-> k, exc |-> o.exc, status |-> o.status, secs |-> 0,
     timeout |-> timeout, headers |-> headers, params |-> params]

SleepEvent(k, s) ==
    [ev |-> "sleep", attempt |-> k, exc |-> "none", status |-> 0, secs |-> s,
     timeout |-> 0, headers |-> {}, params |-> NoParams]

\* variant: the response is dropped and None is returned in its place
Leave_fetch_with_retry_drops(r, exc) ==
    /\ response' = NoneResponse
    /\ IF exc # "none"
         THEN /\ pc' = "done"
              /\ raised' = exc
              /\ result' = result
         ELSE /\ raised' = raised
              /\ IF op = "fetch_with_retry"
                   THEN /\ pc' = "done"
                        /\ result' = ReturnNone
                   ELSE /\ pc' = "fetched"
                        /\ result' = result

\* variant: `return response` is missing, a successful attempt stays in the loop
Leave_fetch_with_retry_continues(r, exc) ==
    /\ response' = r
    /\ raised' = exc
    /\ IF exc # "none" \/ r.isNone
         THEN /\ pc' = "done"
              /\ result' = IF exc # "none" THEN result ELSE ReturnNone
         ELSE /\ pc' = "loop"
              /\ result' = result

\* fetch_with_retry returns r (or, with exc, lets exc escape): back in the
\* caller.  Called directly, that ends the public call; fetch_crypto_prices
\* goes on at `if response:`
Leave_fetch_with_retry(r, exc) ==
    /\ response' = r
    /\ IF exc # "none"
         THEN /\ pc' = "done"
              /\ raised' = exc
              /\ result' = result
         ELSE /\ raised' = raised
              /\ IF op = "fetch_with_retry"
                   THEN /\ pc' = "done"
                        /\ result' = IF r.isNone THEN ReturnNone ELSE ReturnResponse(r)
                   ELSE /\ pc' = "fetched"
                        /\ result' = result

----------------------------------------------------------------------------
(* The dict literal of fetch_additional_market_data *)

\* str.upper() on the texts that occur
upper(t) == IF t = "btc" THEN "BTC" ELSE t

\* data.get('name', 'Unknown')
name_of(c) == IF c.name.kind = "absent" THEN "Unknown" ELSE c.name.text

\* data.get('symbol', '').upper(): None has no upper()
symbol_of(c) ==
    IF c.symbol.kind = "null"
        THEN [exc |-> "AttributeError", text |-> ""]
        ELSE [exc |-> "none", text |-> upper(c.symbol.text)]

\* data.get('description', {}): the value of the key, {} when it is absent
description_get(c) ==
    IF c.description.kind = "absent"
        THEN [exc |-> "none", kind |-> "dict", en |-> NoEn]
        ELSE [exc |-> "none", kind |-> c.description.kind, en |-> c.description.en]

Min(a, b) == IF a < b THEN a ELSE b

\* X.get('en', '')[:100] + '...' if X.get('en') else 'No description available',
\* with X = data.get('description', {}); None and str have no get()
description_of(c) ==
    LET x == description_get(c) IN
    IF x.exc # "none"
        THEN [exc |-> x.exc, kind |-> "none", len |-> 0]
    ELSE IF x.kind # "dict"
        THEN [exc |-> "AttributeError", kind |-> "none", len |-> 0]
    ELSE IF x.en.kind = "str" /\ x.en.len > 0
        THEN [exc |-> "none", kind |-> "excerpt", len |-> Min(x.en.len, 100) + 3]
        ELSE [exc |-> "none", kind |-> "fallback", len |-> 0]

\* the mapping built from the parsed value d, or the exception that building
\* it raises ('name', then 'symbol', then 'description' are evaluated)
market_data(d) ==
    IF d.kind # "dict"
        THEN [exc |-> "AttributeError", ret |-> NoData]
    ELSE IF symbol_of(d.coin).exc # "none"
        THEN [exc |-> symbol_of(d.coin).exc, ret |-> NoData]
    ELSE IF description_of(d.coin).exc # "none"
        THEN [exc |-> description_of(d.coin).exc, ret |-> NoData]
    ELSE [exc |-> "none",
          ret |-> [name |-> name_of(d.coin),
                   symbol |-> symbol_of(d.coin).text,
                   description |-> [kind |-> description_of(d.coin).kind,
                                    len |-> description_of(d.coin).len]]]

----------------------------------------------------------------------------
(* Construction: CryptoDataFetcher(timeout, max_retries) *)

\* no earlier validator call to compare with
NoFirst == [called |-> FALSE, result |-> Pending, raised |-> "none", stdout |-> <<>>]

\* binary_search.py is not in use
BSIdle ==
    /\ bs_pc = "unused"
    /\ bs_fn = "none"
    /\ bs_arr = <<>>
    /\ bs_matrix = <<>>
    /\ bs_target = 0
    /\ bs_result = 0

Init ==
    /\ BSIdle
    /\ params = NoParams
    /\ first = NoFirst
    /\ timeout = DefaultTimeout
    /\ max_retries \in 0..MaxRetriesBound
    /\ headers = FixedHeaders
    /\ ncalls = 0
    /\ op = "none"
    /\ pc = "idle"
    /\ attempt = 0
    /\ crypto_ids = <<>>
    /\ response = NoneResponse
    /\ data = NoData
    /\ result = Pending
    /\ raised = "none"
    /\ log = <<>>
    /\ stdout = <<>>

config == <<timeout, max_retries, headers>>

\* the instance is idle and the caller has calls left to make
CanCall == pc = "idle" /\ ncalls < MaxCalls

\* variant: the attempt counter is kept on the instance and never reset
FreshAttempt_carried(prev) == prev

\* `for attempt in range(...)`: attempt is a local of the call and starts at
\* 0, whatever value an earlier call left behind
FreshAttempt(prev) == 0

\* a public call starts on the idle instance: its locals are fresh
Enter(name, ids, d) ==
    /\ ncalls' = ncalls + 1
    /\ op' = name
    /\ attempt' = FreshAttempt(attempt)
    /\ crypto_ids' = ids
    /\ response' = NoneResponse
    /\ data' = d
    /\ log' = <<>>
    /\ UNCHANGED config

\* the caller invokes fetcher.fetch_with_retry(url, params)
Call_fetch_with_retry ==
    /\ CanCall
    /\ Enter("fetch_with_retry", <<>>, NoData)
    /\ params' = NoParams
    /\ UNCHANGED <<first, bsvars>>
    /\ pc' = "loop"
    /\ result' = Pending
    /\ raised' = "none"
    /\ stdout' = <<>>

\* the caller invokes fetcher.fetch_crypto_prices(crypto_ids): the request is
\* built, "Fetching price data for" is printed and fetch_with_retry is entered
Call_fetch_crypto_prices ==
    /\ CanCall
    /\ UNCHANGED <<first, bsvars>>
    /\ \E ids \in IdSeqs :
        /\ Enter("fetch_crypto_prices", ids, NoData)
        /\ params' = RequestParams(ids)
        /\ pc' = "loop"
        /\ result' = Pending
        /\ raised' = "none"
        /\ stdout' = <<"Fetching price data">>

\* the caller invokes fetcher.fetch_additional_market_data(crypto_symbol): the
\* url is built and fetch_with_retry(url) is entered
Call_fetch_additional_market_data ==
    /\ CanCall
    /\ Enter("fetch_additional_market_data", <<>>, NoData)
    /\ params' = NoParams
    /\ UNCHANGED <<first, bsvars>>
    /\ pc' = "loop"
    /\ result' = Pending
    /\ raised' = "none"
    /\ stdout' = <<>>

\* the caller invokes fetcher.validate_price_data(data, expected_ids)
Call_validate_price_data ==
    /\ CanCall
    /\ params' = NoParams
    /\ UNCHANGED <<first, bsvars>>
    /\ \E d \in JsonValues, ids \in IdSeqs :
        LET v == validate_price_data(d, ids) IN
        /\ Enter("validate_price_data", ids, d)
        /\ pc' = "done"
        /\ result' = IF v.exc = "none" THEN ReturnBool(v.ret) ELSE Pending
        /\ raised' = v.exc
        /\ stdout' = v.out

\* the caller invokes validate_price_data a second time, on the input of the
\* call that has just returned; the first outcome is kept for comparison
Call_validate_price_data_again ==
    /\ pc = "done"
    /\ op = "validate_price_data"
    /\ ~first.called
    /\ ncalls < MaxCalls
    /\ LET v == validate_price_data(data, crypto_ids) IN
        /\ first' = [called |-> TRUE, result |-> result, raised |-> raised,
                     stdout |-> stdout]
        /\ ncalls' = ncalls + 1
        /\ result' = IF v.exc = "none" THEN ReturnBool(v.ret) ELSE Pending
        /\ raised' = v.exc
        /\ stdout' = v.out
    /\ UNCHANGED <<config, op, pc, attempt, crypto_ids, response, data, log, params, bsvars>>

\* one pass of the loop body: session.get, raise_for_status, and the except
\* clause up to the sleep
Attempt ==
    /\ pc = "loop"
    /\ InRange(attempt, max_retries)
    /\ \E o \in OutcomesOf(op) :
        LET exc == IF o.exc # "none" THEN o.exc ELSE raise_for_status(o.status)
            r == [isNone |-> FALSE, attempt |-> attempt, status |-> o.status, body |-> o.body]
        IN
        /\ log' = Append(log, GetEvent(attempt, o))
        /\ IF exc = "none"
             THEN /\ Leave_fetch_with_retry(r, "none")
                  /\ UNCHANGED <<attempt, stdout>>
             ELSE IF ~IsRequestException(exc)
               THEN /\ Leave_fetch_with_retry(NoneResponse, exc)
                    /\ UNCHANGED <<attempt, stdout>>
               ELSE IF RetryFollows(attempt, max_retries)
                 THEN /\ pc' = "sleep"
                      /\ stdout' = stdout \o <<"Attempt failed", "Retrying">>
                      /\ UNCHANGED <<attempt, response, result, raised>>
                 ELSE /\ pc' = "loop"
                      /\ attempt' = attempt + 1
                      /\ stdout' = stdout \o <<"Attempt failed", "All attempts failed">>
                      /\ UNCHANGED <<response, result, raised>>
    /\ UNCHANGED <<config, ncalls, op, crypto_ids, data, params, first, bsvars>>

\* time.sleep(wait_time) returns and the loop goes to the next attempt
Sleep ==
    /\ pc = "sleep"
    /\ log' = Append(log, SleepEvent(attempt, wait_time(attempt)))
    /\ attempt' = attempt + 1
    /\ pc' = "loop"
    /\ UNCHANGED <<config, ncalls, op, crypto_ids, response, data, result, raised, stdout>>
    /\ UNCHANGED <<params, first, bsvars>>

\* the range is used up: `return None`
Exhausted ==
    /\ pc = "loop"
    /\ ~InRange(attempt, max_retries)
    /\ Leave_fetch_with_retry(NoneResponse, "none")
    /\ UNCHANGED <<config, ncalls, op, attempt, crypto_ids, data, log, stdout>>
    /\ UNCHANGED <<params, first, bsvars>>

\* variant: only the entries of the requested ids are returned
ReturnPayload_requested_only(d) ==
    ReturnData([kind |-> d.kind,
                items |-> [i \in IdUniverse |->
                              IF \E j \in 1..Len(crypto_ids) : crypto_ids[j] = i
                                  THEN d.items[i] ELSE Absent]])

\* what fetch_crypto_prices returns for the parsed and validated payload
ReturnPayload(d) == ReturnData(d)

\* variant: a payload that yields None sends the call back into the retry loop
AfterPayload_retry(r) == IF r.kind = "None" THEN "loop" ELSE "done"

\* where fetch_crypto_prices goes once it has the value r to return: it
\* returns, there is no loop around the parsing and the validation
AfterPayload(r) == "done"

\* fetch_crypto_prices after fetch_with_retry returned: `if response:`,
\* response.json(), validate_price_data, and the return
ParseAndValidate ==
    /\ pc = "fetched"
    /\ op = "fetch_crypto_prices"
    /\ IF ~Truthy(response)
         THEN /\ result' = ReturnNone
              /\ UNCHANGED <<data, raised, stdout>>
         ELSE LET p == response_json(response)
                  v == validate_price_data(p.value, crypto_ids)
              IN
              IF p.exc # "none"
                THEN /\ data' = data
                     /\ IF IsJSONDecodeError(p.exc)
                          THEN /\ result' = ReturnNone
                               /\ raised' = raised
                               /\ stdout' = Append(stdout, "Failed to parse JSON response")
                          ELSE /\ result' = result
                               /\ raised' = p.exc
                               /\ stdout' = stdout
                ELSE /\ data' = p.value
                     /\ IF v.exc # "none"
                          THEN /\ result' = result
                               /\ raised' = v.exc
                               /\ stdout' = stdout \o v.out
                          ELSE IF v.ret
                            THEN /\ result' = ReturnPayload(p.value)
                                 /\ raised' = raised
                                 /\ stdout' = stdout \o v.out
                            ELSE /\ result' = ReturnNone
                                 /\ raised' = raised
                                 /\ stdout' = (stdout \o v.out) \o <<"Invalid or incomplete price data">>
    /\ pc' = AfterPayload(result')
    /\ UNCHANGED <<config, ncalls, op, attempt, crypto_ids, response, log>>
    /\ UNCHANGED <<params, first, bsvars>>

\* fetch_additional_market_data after fetch_with_retry returned: `if response:`,
\* response.json(), the dict literal, and the return
ParseAdditional ==
    /\ pc = "fetched"
    /\ op = "fetch_additional_market_data"
    /\ pc' = "done"
    /\ IF ~Truthy(response)
         THEN /\ result' = ReturnNone
              /\ UNCHANGED <<data, raised, stdout>>
         ELSE LET p == response_json(response)
                  m == market_data(p.value)
                  exc == IF p.exc # "none" THEN p.exc ELSE m.exc
              IN
              /\ data' = IF p.exc = "none" THEN p.value ELSE data
              /\ IF exc = "none"
                   THEN /\ result' = ReturnMapping(m.ret)
                        /\ UNCHANGED <<raised, stdout>>
                   ELSE IF IsDecodeOrKeyError(exc)
                     THEN /\ result' = ReturnNone
                          /\ raised' = raised
                          /\ stdout' = Append(stdout, "Failed to parse additional data")
                     ELSE /\ result' = result
                          /\ raised' = exc
                          /\ stdout' = stdout
    /\ UNCHANGED <<config, ncalls, op, attempt, crypto_ids, response, log>>
    /\ UNCHANGED <<params, first, bsvars>>

\* the public call has returned (or raised) to the caller, its frame is gone
\* and the instance is idle again; only the instance's fields live on
Return ==
    /\ pc = "done"
    /\ pc' = "idle"
    /\ op' = "none"
    /\ attempt' = FreshAttempt(attempt)
    /\ crypto_ids' = <<>>
    /\ response' = NoneResponse
    /\ data' = NoData
    /\ result' = Pending
    /\ raised' = "none"
    /\ log' = <<>>
    /\ stdout' = <<>>
    /\ params' = NoParams
    /\ first' = NoFirst
    /\ UNCHANGED <<config, ncalls, bsvars>>

Next ==
    \/ Call_fetch_with_retry
    \/ Call_fetch_crypto_prices
    \/ Call_fetch_additional_market_data
    \/ ParseAdditional
    \/ Call_validate_price_data
    \/ Call_validate_price_data_again
    \/ Attempt
    \/ Sleep
    \/ Exhausted
    \/ ParseAndValidate
    \/ Return

Spec == Init /\ [][Next]_vars

(* The calls that run the retry loop, with the scheduling the code has: it   *)
(* is sequential, so whenever the loop can take its next step (a get that    *)
(* completes, a sleep that completes, the return after the last pass) it     *)
(* eventually does.                                                         *)
LiveNext ==
    \/ Call_fetch_with_retry
    \/ Call_fetch_crypto_prices
    \/ Attempt
    \/ Sleep
    \/ Exhausted
    \/ ParseAndValidate
    \/ Return

SpecLive ==
    /\ Init
    /\ [][LiveNext]_vars
    /\ WF_vars(Attempt)
    /\ WF_vars(Sleep)
    /\ WF_vars(Exhausted)

----------------------------------------------------------------------------
(* Observations on the record of a call, used to state the properties *)

IsGet(e) == e.ev = "get"

IsSleep(e) == e.ev = "sleep"

\* the session.get calls of the running call, in order
Gets == SelectSeq(log, IsGet)

NumGets == Len(Gets)

\* a transport attempt failed: the transport raised, or the status is an
\* HTTP error status
GetFailed(e) == e.exc # "none" \/ (e.status >= 400 /\ e.status <= 599)

\* a transport attempt answered with a 2xx status
Get2xx(e) == e.exc = "none" /\ e.status >= 200 /\ e.status <= 299

AllGetsFailed == \A i \in 1..Len(log) : IsGet(log[i]) => GetFailed(log[i])

RECURSIVE SumSecs(_)
SumSecs(sq) == IF sq = <<>> THEN 0 ELSE Head(sq).secs + SumSecs(Tail(sq))

\* seconds asked of time.sleep so far in the running call
TotalSlept == SumSecs(log)

\* 2^0 + ... + 2^n (0 for n < 0)
RECURSIVE SumPow2(_)
SumPow2(n) == IF n < 0 THEN 0 ELSE 2^n + SumPow2(n - 1)

\* a call of fetch_with_retry is running or has just returned, directly or
\* inside fetch_crypto_prices or fetch_additional_market_data
InFetch ==
    op \in {"fetch_with_retry", "fetch_crypto_prices", "fetch_additional_market_data"}

\* fetch_with_retry has returned to its caller
FetchReturned == InFetch /\ pc \in {"fetched", "done"}

----------------------------------------------------------------------------
(* C1: at every moment of a fetch_with_retry call the number of session.get *)
(* calls made so far is at most max_retries.                                 *)
C1_AttemptsBounded == InFetch => NumGets <= max_retries

\* a call that used all of its three attempts
C1_Witness ==
    /\ op = "fetch_with_retry"
    /\ pc = "done"
    /\ max_retries = 3
    /\ NumGets = 3

(* C2: when an attempt answers 2xx, fetch_with_retry returns that attempt's  *)
(* response and nothing follows it in the call: the successful get is the    *)
(* last entry of the call's record and the call is no longer in the loop.    *)
C2_FirstSuccessReturned ==
    \A i \in 1..Len(log) :
        (InFetch /\ IsGet(log[i]) /\ Get2xx(log[i])) =>
            /\ i = Len(log)
            /\ \A j \in 1..(i - 1) : IsGet(log[j]) => ~Get2xx(log[j])
            /\ log[i].attempt < max_retries
            /\ pc \in {"fetched", "done"}
            /\ ~response.isNone
            /\ response.attempt = log[i].attempt
            /\ response.status = log[i].status
            /\ (op = "fetch_with_retry" =>
                    /\ pc = "done"
                    /\ raised = "none"
                    /\ result.kind = "response"
                    /\ result.response = response)

\* the second attempt (index 1) succeeded after a failure and a sleep
C2_Witness ==
    /\ op = "fetch_with_retry"
    /\ pc = "done"
    /\ Len(log) = 3
    /\ GetFailed(log[1])
    /\ IsSleep(log[2])
    /\ Get2xx(log[3])
    /\ log[3].attempt = 1
    /\ result.kind = "response"

C4_NeverRaises ==
    op = "fetch_with_retry" =>
        /\ raised = "none"
        /\ (pc = "done" => result.kind \in {"None", "response"})

\* a call that met a timeout, a connection error and an error status
C4_Witness ==
    /\ op = "fetch_with_retry"
    /\ pc = "done"
    /\ \E i, j, k \in 1..Len(log) :
          /\ log[i].exc = "Timeout"
          /\ log[j].exc = "ConnectionError"
          /\ IsGet(log[k]) /\ log[k].status = 503
    /\ result.kind = "None"

(* C5: fetch_with_retry returns None only after exhaustion: when it has      *)
(* returned None, exactly max_retries attempts were made and each failed.    *)
C5_NoneOnlyAfterExhaustion ==
    (FetchReturned /\ response.isNone /\ raised = "none") =>
        /\ NumGets = max_retries
        /\ AllGetsFailed
        /\ (op = "fetch_with_retry" => result.kind = "None")

\* None returned to the caller after three failed attempts
C5_Witness ==
    /\ op = "fetch_with_retry"
    /\ pc = "done"
    /\ result.kind = "None"
    /\ max_retries = 3
    /\ NumGets = 3
    /\ AllGetsFailed

----------------------------------------------------------------------------
(* The payload shape the specification asks for, stated on its own: the     *)
(* value is a keyed mapping, every expected id is a key of it, and every    *)
(* such entry holds each of the three required fields.                      *)

HoldsField(entry, f) == entry.kind \in {"dict", "list", "str"} /\ f \in entry.elems

ShapeOk(d, ids) ==
    /\ d.kind = "dict"
    /\ \A j \in 1..Len(ids) :
          /\ d.items[ids[j]].kind # "absent"
          /\ \A f \in {"usd", "usd_24h_change", "usd_market_cap"} :
                HoldsField(d.items[ids[j]], f)

\* fetch_crypto_prices got a response whose body decoded to a JSON value
Decoded == ~response.isNone /\ response.body.wellformed

(* C6: a result of fetch_crypto_prices is never partially valid: a returned  *)
(* payload has every requested id with all three required fields, and a     *)
(* decoded payload that lacks an id or a field makes the call return None.   *)
C6_NeverPartiallyValid ==
    (op = "fetch_crypto_prices" /\ pc = "done") =>
        /\ (result.kind = "data" => ShapeOk(result.data, crypto_ids))
        /\ ((Decoded /\ ~ShapeOk(response.body.value, crypto_ids)) =>
                (raised = "none" /\ result.kind = "None"))

(* C7: validate_price_data(data, expected_ids) returns True exactly when     *)
(* data is a keyed mapping holding every expected id with each of the three  *)
(* required fields, and returns False in every other case.                   *)
C7_ValidateIff ==
    (op = "validate_price_data" /\ pc = "done") =>
        /\ raised = "none"
        /\ result.kind = "bool"
        /\ result.bool = ShapeOk(data, crypto_ids)

(* C8: when the body decodes to a payload that is valid for every requested  *)
(* id, fetch_crypto_prices returns exactly that payload, with the entries of *)
(* ids that were not requested and the extra fields as they were; whatever   *)
(* payload it returns is the decoded one.                                    *)
C8_RoundTrip ==
    (op = "fetch_crypto_prices" /\ pc = "done") =>
        /\ ((Decoded /\ ShapeOk(response.body.value, crypto_ids)) =>
                /\ raised = "none"
                /\ result.kind = "data"
                /\ result.data = response.body.value)
        /\ (result.kind = "data" => (Decoded /\ result.data = response.body.value))

\* bitcoin was requested; the payload returned also holds an ethereum entry
\* and a fourth field
C8_Witness ==
    /\ op = "fetch_crypto_prices"
    /\ pc = "done"
    /\ crypto_ids = <<"bitcoin">>
    /\ result.kind = "data"
    /\ result.data.items["bitcoin"].elems = Fields
    /\ result.data.items["ethereum"].kind = "dict"

AllGetsTimedOut == \A i \in 1..Len(log) : IsGet(log[i]) => log[i].exc = "Timeout"

(* C9: when every transport attempt times out, fetch_crypto_prices returns   *)
(* None after exactly max_retries attempts, raises nothing, and never        *)
(* decodes or validates anything.                                            *)
C9_AlwaysTimeout ==
    (op = "fetch_crypto_prices" /\ AllGetsTimedOut) =>
        /\ raised = "none"
        /\ data = NoData
        /\ \A i \in 1..Len(stdout) :
              stdout[i] \in {"Fetching price data", "Attempt failed", "Retrying",
                             "All attempts failed"}
        /\ (pc = "done" => (result.kind = "None" /\ NumGets = max_retries))

\* three timeouts, then None
C9_Witness ==
    /\ op = "fetch_crypto_prices"
    /\ pc = "done"
    /\ crypto_ids = <<"bitcoin">>
    /\ max_retries = 3
    /\ NumGets = 3
    /\ AllGetsTimedOut
    /\ result.kind = "None"

(* C10: when the transport succeeds but the body is not valid JSON,          *)
(* fetch_crypto_prices returns None, the value it returns for a transport    *)
(* failure, and does not raise.                                              *)
C10_BadJsonIsNone ==
    (op = "fetch_crypto_prices" /\ pc = "done" /\ ~response.isNone
        /\ ~response.body.wellformed) =>
        /\ raised = "none"
        /\ result.kind = "None"
        /\ result.data = NoData
        /\ data = NoData

\* a 200 answer on the first attempt whose body does not decode
C10_Witness ==
    /\ op = "fetch_crypto_prices"
    /\ pc = "done"
    /\ NumGets = 1
    /\ response.status = 200
    /\ ~response.body.wellformed
    /\ result.kind = "None"

----------------------------------------------------------------------------
(* What the validator does with a payload, stated on its own.  It walks the *)
(* expected ids in order and stops at the first entry that is not in order: *)
(* an absent entry or a container lacking a field is rejected, an entry     *)
(* that is no container (a number, null) makes it raise.                    *)

EntryInOrder(e) ==
    /\ e.kind \in {"dict", "list", "str"}
    /\ \A f \in {"usd", "usd_24h_change", "usd_market_cap"} : f \in e.elems

NoContainer(e) == e.kind \in {"num", "null"}

\* the validator says False
Rejects(d, ids) ==
    \/ d.kind # "dict"
    \/ \E j \in 1..Len(ids) :
          /\ ~EntryInOrder(d.items[ids[j]])
          /\ ~NoContainer(d.items[ids[j]])
          /\ \A i \in 1..(j - 1) : EntryInOrder(d.items[ids[i]])

(* C11: when the transport succeeded and the body decoded but the validator  *)
(* rejects the payload, fetch_crypto_prices returns None, the result of a    *)
(* transport failure; a payload the validator rejects is never returned.     *)
C11_RejectedIsNone ==
    (op = "fetch_crypto_prices" /\ pc = "done") =>
        /\ ((Decoded /\ Rejects(response.body.value, crypto_ids)) =>
                /\ raised = "none"
                /\ result.kind = "None"
                /\ result.data = NoData)
        /\ (result.kind = "data" => ~Rejects(result.data, crypto_ids))

\* both ids requested, the body holds a complete bitcoin entry and an
\* ethereum entry with only 'usd'
C11_Witness ==
    /\ op = "fetch_crypto_prices"
    /\ pc = "done"
    /\ crypto_ids = <<"bitcoin", "ethereum">>
    /\ Decoded
    /\ response.body.value.kind = "dict"
    /\ EntryInOrder(response.body.value.items["bitcoin"])
    /\ response.body.value.items["ethereum"] = [kind |-> "dict", elems |-> {"usd"}]
    /\ result.kind = "None"

(* C12: fetch_crypto_prices makes one batched request: every session.get of  *)
(* the call carries all the ids in its 'ids' parameter, the gets are the     *)
(* attempts 0, 1, 2, ... of a single fetch_with_retry run, and there are at  *)
(* most max_retries of them however many ids were asked for.                 *)
C12_SingleBatchedRequest ==
    op = "fetch_crypto_prices" =>
        /\ NumGets <= max_retries
        /\ \A i \in 1..NumGets :
              /\ Gets[i].attempt = i - 1
              /\ ~Gets[i].params.isNone
              /\ Gets[i].params.ids = crypto_ids

\* two ids served by a single get
C12_Witness ==
    /\ op = "fetch_crypto_prices"
    /\ pc = "done"
    /\ Len(crypto_ids) = 2
    /\ crypto_ids[1] # crypto_ids[2]
    /\ NumGets = 1
    /\ result.kind = "data"

(* C13, as stated: a call of validate_price_data has no side effect at all:  *)
(* no output, no network request, no change of the fetcher.                  *)
C13_ValidatePure ==
    (op = "validate_price_data" /\ pc = "done") =>
        /\ stdout = <<>>
        /\ log = <<>>
        /\ response.isNone
        /\ timeout = DefaultTimeout
        /\ headers = FixedHeaders

(* C13, amended: a call of validate_price_data makes no network request and  *)
(* leaves the fetcher as it was; it prints nothing when it accepts, when     *)
(* data is not a dict and when it raises, and prints exactly one line        *)
(* ("Missing data for ..." or "Missing field ...") when it rejects a dict.   *)
C13_ValidateEffects ==
    (op = "validate_price_data" /\ pc = "done") =>
        /\ log = <<>>
        /\ response.isNone
        /\ timeout = DefaultTimeout
        /\ headers = FixedHeaders
        /\ ((raised # "none" \/ data.kind # "dict") => stdout = <<>>)
        /\ ((result.kind = "bool" /\ result.bool) => stdout = <<>>)
        /\ ((result.kind = "bool" /\ ~result.bool /\ data.kind = "dict") =>
                /\ Len(stdout) = 1
                /\ stdout[1] \in {"Missing data", "Missing field"})

\* the validator rejected {} for ['bitcoin'] and printed the missing id
C13_Witness ==
    /\ op = "validate_price_data"
    /\ pc = "done"
    /\ crypto_ids = <<"bitcoin">>
    /\ data = [kind |-> "dict", items |-> NoItems]
    /\ result.kind = "bool"
    /\ ~result.bool
    /\ stdout = <<"Missing data">>

----------------------------------------------------------------------------
(* binary_search.py: the search functions, computed as the code computes    *)
(* them.  Python lists are 0-based; At(arr, i) is arr[i].                   *)

MaxLen == 5
MaxVal == 2
MaxRows == 2
MaxCols == 3

At(arr, i) == arr[i + 1]

\* mid = left + (right - left) // 2
Mid(left, right) == left + ((right - left) \div 2)

\* variant: the loop stops one step early
IterContinue_strict(left, right) == left < right

\* `while left <= right`
IterContinue(left, right) == left <= right

RECURSIVE IterLoop(_, _, _, _)
IterLoop(arr, target, left, right) ==
    IF ~IterContinue(left, right) THEN -1
    ELSE LET mid == Mid(left, right) IN
        IF At(arr, mid) = target THEN mid
        ELSE IF At(arr, mid) < target
            THEN IterLoop(arr, target, mid + 1, right)
            ELSE IterLoop(arr, target, left, mid - 1)

binary_search_iterative(arr, target) ==
    IF Len(arr) = 0 THEN -1 ELSE IterLoop(arr, target, 0, Len(arr) - 1)

\* the Optional[int] argument `right`
RightNone == [isNone |-> TRUE, val |-> 0]
RightInt(v) == [isNone |-> FALSE, val |-> v]

\* variant: a range of one element counts as empty
RecEmptyRange_one(left, right) == left >= right

\* `if left > right`
RecEmptyRange(left, right) == left > right

RECURSIVE binary_search_recursive(_, _, _, _)
binary_search_recursive(arr, target, left, right) ==
    IF Len(arr) = 0 THEN -1
    ELSE LET r == IF right.isNone THEN Len(arr) - 1 ELSE right.val IN
        IF RecEmptyRange(left, r) THEN -1
        ELSE LET mid == Mid(left, r) IN
            IF At(arr, mid) = target THEN mid
            ELSE IF At(arr, mid) < target
                THEN binary_search_recursive(arr, target, mid + 1, RightInt(r))
                ELSE binary_search_recursive(arr, target, left, RightInt(mid - 1))

\* variant: elements equal to the target are passed over too
InsertGoRight_equal(v, target) == v <= target

\* `if arr[mid] < target`
InsertGoRight(v, target) == v < target

RECURSIVE InsertLoop(_, _, _, _)
InsertLoop(arr, target, left, right) ==
    IF ~(left < right) THEN left
    ELSE LET mid == Mid(left, right) IN
        IF InsertGoRight(At(arr, mid), target)
            THEN InsertLoop(arr, target, mid + 1, right)
            ELSE InsertLoop(arr, target, left, mid)

find_insertion_position(arr, target) == InsertLoop(arr, target, 0, Len(arr))

\* variant: after a match the search goes on to the right
FirstOnMatch_right(left, right, mid) == [left |-> mid + 1, right |-> right]

\* `right = mid - 1  # Continue searching left for first occurrence`
FirstOnMatch(left, right, mid) == [left |-> left, right |-> mid - 1]

RECURSIVE FirstLoop(_, _, _, _, _)
FirstLoop(arr, target, left, right, res) ==
    IF ~(left <= right) THEN res
    ELSE LET mid == Mid(left, right) IN
        IF At(arr, mid) = target
            THEN LET n == FirstOnMatch(left, right, mid) IN
                 FirstLoop(arr, target, n.left, n.right, mid)
        ELSE IF At(arr, mid) < target
            THEN FirstLoop(arr, target, mid + 1, right, res)
            ELSE FirstLoop(arr, target, left, mid - 1, res)

find_first_occurrence(arr, target) ==
    IF Len(arr) = 0 THEN -1 ELSE FirstLoop(arr, target, 0, Len(arr) - 1, -1)

\* variant: after a match the search goes on to the left
LastOnMatch_left(left, right, mid) == [left |-> left, right |-> mid - 1]

\* `left = mid + 1  # Continue searching right for last occurrence`
LastOnMatch(left, right, mid) == [left |-> mid + 1, right |-> right]

RECURSIVE LastLoop(_, _, _, _, _)
LastLoop(arr, target, left, right, res) ==
    IF ~(left <= right) THEN res
    ELSE LET mid == Mid(left, right) IN
        IF At(arr, mid) = target
            THEN LET n == LastOnMatch(left, right, mid) IN
                 LastLoop(arr, target, n.left, n.right, mid)
        ELSE IF At(arr, mid) < target
            THEN LastLoop(arr, target, mid + 1, right, res)
            ELSE LastLoop(arr, target, left, mid - 1, res)

find_last_occurrence(arr, target) ==
    IF Len(arr) = 0 THEN -1 ELSE LastLoop(arr, target, 0, Len(arr) - 1, -1)

RECURSIVE RotatedLoop(_, _, _, _)
RotatedLoop(arr, target, left, right) ==
    IF ~(left <= right) THEN -1
    ELSE LET mid == Mid(left, right) IN
        IF At(arr, mid) = target THEN mid
        ELSE IF At(arr, left) <= At(arr, mid)
            THEN IF At(arr, left) <= target /\ target < At(arr, mid)
                    THEN RotatedLoop(arr, target, left, mid - 1)
                    ELSE RotatedLoop(arr, target, mid + 1, right)
            ELSE IF At(arr, mid) < target /\ target <= At(arr, right)
                    THEN RotatedLoop(arr, target, mid + 1, right)
                    ELSE RotatedLoop(arr, target, left, mid - 1)

search_rotated_array(arr, target) ==
    IF Len(arr) = 0 THEN -1 ELSE RotatedLoop(arr, target, 0, Len(arr) - 1)

\* variant: the walk starts in the top-left corner
StartCol_left(cols) == 0

\* `row, col = 0, cols - 1  # Start from top-right corner`
StartCol(cols) == cols - 1

RECURSIVE MatrixLoop(_, _, _, _)
MatrixLoop(matrix, target, row, col) ==
    IF ~(row < Len(matrix) /\ col >= 0) THEN FALSE
    ELSE IF At(At(matrix, row), col) = target THEN TRUE
    ELSE IF At(At(matrix, row), col) > target
        THEN MatrixLoop(matrix, target, row, col - 1)
        ELSE MatrixLoop(matrix, target, row + 1, col)

search_2d_matrix(matrix, target) ==
    IF Len(matrix) = 0 \/ Len(matrix[1]) = 0
        THEN FALSE
        ELSE MatrixLoop(matrix, target, 0, StartCol(Len(matrix[1])))

(* The inputs: every rotation of every non-decreasing list of up to MaxLen  *)
(* values in 0..MaxVal (rotation by 0 is the sorted list itself), and every *)
(* target from below the smallest to above the largest value.               *)

SortedLists ==
    UNION {{s \in [1..n -> 0..MaxVal] : \A i \in 1..(n - 1) : s[i] <= s[i + 1]} :
           n \in 0..MaxLen}

Rotate(s, k) == [i \in 1..Len(s) |-> s[((i - 1 + k) % Len(s)) + 1]]

Arrays == UNION {{Rotate(s, k) : k \in 0..Len(s)} : s \in SortedLists}

Targets == (-1)..(MaxVal + 1)

\* the non-decreasing rows of c values
SortedRows(c) == {s \in [1..c -> 0..MaxVal] : \A i \in 1..(c - 1) : s[i] <= s[i + 1]}

\* every r x c matrix, r in 0..MaxRows and c in 0..MaxCols, whose rows are
\* sorted left to right and whose columns are sorted top to bottom
Matrices ==
    UNION {{m \in [1..r -> SortedRows(c)] :
               \A i \in 1..(r - 1) : \A j \in 1..c : m[i][j] <= m[i + 1][j]} :
           r \in 0..MaxRows, c \in 0..MaxCols}

\* the fetcher of web_scraper.py is not in use
FetcherIdle ==
    /\ params = NoParams
    /\ first = NoFirst
    /\ timeout = DefaultTimeout
    /\ max_retries = 3
    /\ headers = FixedHeaders
    /\ ncalls = 0
    /\ op = "none"
    /\ pc = "idle"
    /\ attempt = 0
    /\ crypto_ids = <<>>
    /\ response = NoneResponse
    /\ data = NoData
    /\ result = Pending
    /\ raised = "none"
    /\ log = <<>>
    /\ stdout = <<>>

BSInit ==
    /\ FetcherIdle
    /\ bs_pc = "ready"
    /\ bs_fn = "none"
    /\ \/ bs_arr \in Arrays /\ bs_matrix = <<>>
       \/ bs_arr = <<>> /\ bs_matrix \in Matrices
    /\ bs_target \in Targets
    /\ bs_result = 0

\* a call fn(bs_arr, bs_target) that returns r
Apply(fn, r) ==
    /\ bs_pc = "ready"
    /\ bs_pc' = "done"
    /\ bs_fn' = fn
    /\ bs_result' = r
    /\ UNCHANGED <<bs_arr, bs_matrix, bs_target, fvars>>

Apply_binary_search_iterative ==
    Apply("binary_search_iterative", binary_search_iterative(bs_arr, bs_target))

Apply_binary_search_recursive ==
    Apply("binary_search_recursive",
          binary_search_recursive(bs_arr, bs_target, 0, RightNone))

Apply_find_insertion_position ==
    Apply("find_insertion_position", find_insertion_position(bs_arr, bs_target))

Apply_find_first_occurrence ==
    Apply("find_first_occurrence", find_first_occurrence(bs_arr, bs_target))

Apply_find_last_occurrence ==
    Apply("find_last_occurrence", find_last_occurrence(bs_arr, bs_target))

Apply_search_rotated_array ==
    Apply("search_rotated_array", search_rotated_array(bs_arr, bs_target))

Apply_search_2d_matrix ==
    Apply("search_2d_matrix", search_2d_matrix(bs_matrix, bs_target))

BSNext ==
    \/ Apply_binary_search_iterative
    \/ Apply_binary_search_recursive
    \/ Apply_find_insertion_position
    \/ Apply_find_first_occurrence
    \/ Apply_find_last_occurrence
    \/ Apply_search_rotated_array
    \/ Apply_search_2d_matrix

SpecBS == BSInit /\ [][BSNext]_vars

----------------------------------------------------------------------------
(* Properties of the search functions *)

IsSorted(arr) == \A i \in 1..(Len(arr) - 1) : arr[i] <= arr[i + 1]

\* the 0-based indices at which target occurs
Occurrences(arr, target) == {i \in 0..(Len(arr) - 1) : arr[i + 1] = target}

Returned(fn) == bs_pc = "done" /\ bs_fn = fn

\* r is the index of an occurrence of the target, or -1 when there is none
FindsTarget(r) ==
    IF Occurrences(bs_arr, bs_target) = {}
        THEN r = -1
        ELSE r \in Occurrences(bs_arr, bs_target)

(* C15: on a sorted list binary_search_iterative returns an index holding    *)
(* the target when the target occurs, and -1 when it does not.               *)
C15_IterativeFinds ==
    (Returned("binary_search_iterative") /\ IsSorted(bs_arr)) =>
        FindsTarget(bs_result)

\* a two-element list whose second element is the target
C15_Witness ==
    /\ Returned("binary_search_iterative")
    /\ bs_arr = <<0, 1>>
    /\ bs_target = 1
    /\ bs_result = 1

(* C16: on a sorted list binary_search_recursive, called with the default    *)
(* left and right, returns what binary_search_iterative returns.             *)
C16_RecursiveEqualsIterative ==
    (Returned("binary_search_recursive") /\ IsSorted(bs_arr)) =>
        bs_result = binary_search_iterative(bs_arr, bs_target)

\* a list with duplicates of the target
C16_Witness ==
    /\ Returned("binary_search_recursive")
    /\ bs_arr = <<0, 1, 1, 1, 2>>
    /\ bs_target = 1
    /\ bs_result = 2

(* C17: on a sorted list find_insertion_position returns p in 0..len(arr)    *)
(* with every element before p below the target and every element from p on *)
(* at least the target.                                                      *)
C17_InsertionPosition ==
    (Returned("find_insertion_position") /\ IsSorted(bs_arr)) =>
        /\ bs_result \in 0..Len(bs_arr)
        /\ \A i \in 0..(Len(bs_arr) - 1) :
              IF i < bs_result
                  THEN At(bs_arr, i) < bs_target
                  ELSE At(bs_arr, i) >= bs_target

\* the target occurs twice and is inserted before its first occurrence
C17_Witness ==
    /\ Returned("find_insertion_position")
    /\ bs_arr = <<0, 1, 1, 2>>
    /\ bs_target = 1
    /\ bs_result = 1

(* C18: on a sorted list find_first_occurrence returns the smallest index    *)
(* holding the target, or -1 when the target does not occur.                 *)
C18_FirstOccurrence ==
    (Returned("find_first_occurrence") /\ IsSorted(bs_arr)) =>
        /\ FindsTarget(bs_result)
        /\ \A i \in Occurrences(bs_arr, bs_target) : bs_result <= i

\* three occurrences, the first at index 1
C18_Witness ==
    /\ Returned("find_first_occurrence")
    /\ bs_arr = <<0, 1, 1, 1, 2>>
    /\ bs_target = 1
    /\ bs_result = 1

(* C19: on a sorted list find_last_occurrence returns the largest index      *)
(* holding the target, or -1 when the target does not occur.                 *)
C19_LastOccurrence ==
    (Returned("find_last_occurrence") /\ IsSorted(bs_arr)) =>
        /\ FindsTarget(bs_result)
        /\ \A i \in Occurrences(bs_arr, bs_target) : bs_result >= i

\* three occurrences, the last at index 3
C19_Witness ==
    /\ Returned("find_last_occurrence")
    /\ bs_arr = <<0, 1, 1, 1, 2>>
    /\ bs_target = 1
    /\ bs_result = 3

(* C20: on every rotation of a non-decreasing list search_rotated_array      *)
(* returns an index holding the target when the target occurs, and -1 when   *)
(* it does not.                                                              *)
C20_RotatedFinds ==
    Returned("search_rotated_array") => FindsTarget(bs_result)

\* the target occurs somewhere in the matrix
InMatrix(m, target) ==
    \E i \in 1..Len(m) : \E j \in 1..Len(m[i]) : m[i][j] = target

(* C21: on a rectangular matrix with sorted rows and sorted columns          *)
(* search_2d_matrix returns True exactly when the target occurs in the       *)
(* matrix; False for an empty matrix and for an empty first row.             *)
C21_MatrixSearchIff ==
    Returned("search_2d_matrix") =>
        /\ bs_result \in BOOLEAN
        /\ bs_result = InMatrix(bs_matrix, bs_target)

\* the target sits in the bottom-left corner only, the farthest cell from the
\* start of the walk
C21_Witness ==
    /\ Returned("search_2d_matrix")
    /\ bs_matrix = <<<<0, 0, 2>>, <<1, 2, 2>>>>
    /\ bs_target = 1
    /\ bs_result = TRUE

----------------------------------------------------------------------------
C23_NoRetryAfterTransportSuccess ==
    op = "fetch_crypto_prices" =>
        \A i \in 1..Len(log) :
            (IsGet(log[i]) /\ ~GetFailed(log[i])) =>
                /\ i = Len(log)
                /\ pc \in {"fetched", "done"}
                /\ ~response.isNone
                /\ response.attempt = log[i].attempt

\* the only attempt got a 200 whose body does not parse; the call ended with
\* None after that single get although two more attempts were allowed
C23_Witness ==
    /\ op = "fetch_crypto_prices"
    /\ pc = "done"
    /\ max_retries = 3
    /\ Len(log) = 1
    /\ log[1].status = 200
    /\ ~response.body.wellformed
    /\ result.kind = "None"

----------------------------------------------------------------------------
(* The two terminal states of the retry state machine *)

\* fetch_with_retry returned the response of an attempt that did not fail
Success ==
    /\ FetchReturned
    /\ (op = "fetch_with_retry" => raised = "none")
    /\ ~response.isNone
    /\ Len(log) > 0
    /\ IsGet(log[Len(log)])
    /\ ~GetFailed(log[Len(log)])

\* fetch_with_retry returned None after max_retries failed attempts
ExhaustedFailure ==
    /\ FetchReturned
    /\ (op = "fetch_with_retry" => raised = "none")
    /\ response.isNone
    /\ NumGets = max_retries
    /\ AllGetsFailed

----------------------------------------------------------------------------
(* C25: no operation reconfigures the fetcher.  No step of fetch_with_retry, *)
(* fetch_crypto_prices, validate_price_data or fetch_additional_market_data  *)
(* changes timeout, max_retries or the session headers, on any path, and     *)
(* every session.get of every call is made with the construction-time        *)
(* timeout and headers.                                                      *)
C25_NoReconfiguration ==
    /\ [][/\ timeout' = timeout
          /\ max_retries' = max_retries
          /\ headers' = headers]_vars
    /\ [](/\ timeout = DefaultTimeout
          /\ headers = FixedHeaders
          /\ \A i \in 1..Len(log) :
                IsGet(log[i]) =>
                    /\ log[i].timeout = DefaultTimeout
                    /\ log[i].headers = FixedHeaders)

\* the third call on the instance, a fetch_additional_market_data that failed
\* at every attempt, still ran with the settings of the construction
C25_Witness ==
    /\ op = "fetch_additional_market_data"
    /\ pc = "done"
    /\ ncalls = 3
    /\ max_retries = 2
    /\ NumGets = 2
    /\ AllGetsFailed
    /\ timeout = DefaultTimeout
    /\ headers = FixedHeaders

(* C26: fetch_additional_market_data is lenient about missing metadata.      *)
(* When the transport succeeded and the parsed JSON object lacks 'name',     *)
(* 'symbol' or 'description', the call returns a mapping, without raising,   *)
(* in which each lacking key has its fallback ('Unknown', '', 'No            *)
(* description available'); and it returns None only when the transport is   *)
(* exhausted or the body does not parse.                                     *)
C26_LenientAboutMissingMetadata ==
    (op = "fetch_additional_market_data" /\ pc = "done") =>
        /\ (result.kind = "None" => (response.isNone \/ ~response.body.wellformed))
        /\ ((/\ Decoded
             /\ response.body.value.kind = "dict"
             /\ \/ response.body.value.coin.name.kind = "absent"
                \/ response.body.value.coin.symbol.kind = "absent"
                \/ response.body.value.coin.description.kind = "absent") =>
                /\ raised = "none"
                /\ result.kind = "mapping"
                /\ (response.body.value.coin.name.kind = "absent" =>
                        result.data.name = "Unknown")
                /\ (response.body.value.coin.symbol.kind = "absent" =>
                        result.data.symbol = "")
                /\ (response.body.value.coin.description.kind = "absent" =>
                        result.data.description.kind = "fallback"))

(* C27: with max_retries <= 0 fetch_with_retry makes no transport attempt    *)
(* and no sleep and returns None at once.                                    *)
C27_ZeroRetriesNoAttempt ==
    (InFetch /\ max_retries <= 0) =>
        /\ log = <<>>
        /\ pc # "sleep"
        /\ (FetchReturned => response.isNone)
        /\ ((op = "fetch_with_retry" /\ pc = "done") =>
                /\ raised = "none"
                /\ result.kind = "None")

\* a direct call on a fetcher constructed with max_retries = 0 has returned
C27_Witness ==
    /\ op = "fetch_with_retry"
    /\ pc = "done"
    /\ max_retries = 0
    /\ log = <<>>
    /\ result.kind = "None"

\* the entry of a requested id is present and is not a mapping
NonMappingEntry(d, ids) ==
    /\ d.kind = "dict"
    /\ \E j \in 1..Len(ids) : d.items[ids[j]].kind \in {"null", "num", "str", "list"}

(* C28: for a payload that is a mapping in which the entry of a requested id *)
(* is not itself a mapping (null, number, string, list), validate_price_data *)
(* returns False without raising, and fetch_crypto_prices returns None.      *)
C28_NonMappingEntryRejected ==
    /\ ((op = "validate_price_data" /\ pc = "done" /\ NonMappingEntry(data, crypto_ids)) =>
            /\ raised = "none"
            /\ result.kind = "bool"
            /\ ~result.bool)
    /\ ((/\ op = "fetch_crypto_prices"
         /\ pc = "done"
         /\ Decoded
         /\ NonMappingEntry(response.body.value, crypto_ids)) =>
            /\ raised = "none"
            /\ result.kind = "None")

(* C29: retry state does not carry over between calls.  Whatever calls the   *)
(* instance served before, a call enters the loop at attempt index 0, its    *)
(* first get is attempt 0, its first sleep is 1 second, and it gives up only *)
(* after max_retries attempts of its own.                                    *)
C29_FreshRetryState ==
    InFetch =>
        /\ ((pc = "loop" /\ log = <<>>) => attempt = 0)
        /\ (Len(log) >= 1 => IsGet(log[1]) /\ log[1].attempt = 0)
        /\ (Len(log) >= 2 => IsSleep(log[2]) /\ log[2].secs = 1)
        /\ ((FetchReturned /\ response.isNone) => NumGets = max_retries)

\* the third call on the instance used all three attempts and slept 1 second
\* first
C29_Witness ==
    /\ op = "fetch_with_retry"
    /\ pc = "done"
    /\ ncalls = 3
    /\ max_retries = 3
    /\ NumGets = 3
    /\ log[1].attempt = 0
    /\ log[2].secs = 1
    /\ response.isNone

(* C30: the backoff slept in one fetch_with_retry call is bounded.  A call   *)
(* that succeeded at attempt k slept exactly 2^k - 1 seconds, a call that    *)
(* exhausted its attempts (max_retries >= 1) slept exactly                   *)
(* 2^(max_retries-1) - 1 seconds, and no call sleeps more than that.         *)
C30_TotalBackoff ==
    InFetch =>
        /\ (Success => TotalSlept = 2 ^ (log[Len(log)].attempt) - 1)
        /\ ((FetchReturned /\ response.isNone /\ max_retries >= 1) =>
                TotalSlept = 2 ^ (max_retries - 1) - 1)
        /\ (max_retries >= 1 => TotalSlept <= 2 ^ (max_retries - 1) - 1)
        /\ (max_retries < 1 => TotalSlept = 0)

\* success at attempt 2 after sleeps of 1 and 2 seconds
C30_Witness ==
    /\ op = "fetch_with_retry"
    /\ pc = "done"
    /\ Success
    /\ log[Len(log)].attempt = 2
    /\ TotalSlept = 3

====
